---- MODULE Spec2Model ----
(***************************************************************************)
(* Genre-trend pipeline of src/analyze_trend.py.                           *)
(*                                                                         *)
(* A raw table is a sequence of item rows                                  *)
(*   [id, Score, Year, Season, code, g]                                    *)
(* id is the row's index label, Score is a positive integer or NaN,        *)
(* Season is the season's label, code is 0 while the Season column holds   *)
(* plain strings and the position of the label in the categories once the  *)
(* column is a pandas Categorical, g maps each genre to its count.         *)
(*                                                                         *)
(* An aggregated table is [cols, rows]: cols the set of data columns, rows *)
(* a sequence of [key, val], key the (Year, Season) index entry and val a  *)
(* function from cols to the cell.                                         *)
(***************************************************************************)
EXTENDS Integers, Sequences, FiniteSets, TLC

VARIABLES
    heap,         \* object id -> raw table: the DataFrame objects that exist
    df,           \* the object the name df of analyze_trend is bound to
    top_n,        \* the n of the latest only_genres_for_top_n call
    only_genres,  \* the aggregated table bound to only_genres
    rendered,     \* the tables handed to the rendering collaborators, in order
    raised,       \* the exception that left the latest call ("none": returned)
    pc            \* the position in analyze_trend, or of a direct call

vars == <<heap, df, top_n, only_genres, rendered, raised, pc>>

(***************************************************************************)
(* Bounds of the explored inputs.                                          *)
(***************************************************************************)
MaxRows == 3      \* rows of an arbitrary-order raw table
MaxScore == 2     \* scores 1..MaxScore in the direct calls
MaxN == 2         \* n in -1..MaxN in the direct calls
MaxDense == 12    \* rows of a one-season raw table
MaxHist == 22     \* seasons of a one-row-per-season raw table
MaxSmall == 5     \* rows of an arbitrary aggregated table
MaxParts == 22    \* rows of a block-shaped aggregated table

(***************************************************************************)
(* Values.                                                                 *)
(***************************************************************************)
NaN == -1                      \* the missing value of a numeric column
Genres == {"A", "B"}           \* the genre columns of the table
Categories == <<"winter", "spring", "summer", "fall">>
basic_headers == {"Score", "Year", "Season"}
Columns == {"Score"} \cup Genres   \* the columns that are not group keys
Top5 == 5
Top10Low == Top5 - 1
Top10 == 10
Window == 20
FractionNum == 4               \* 0.4 = FractionNum / FractionDen
FractionDen == 10
CallerDf == 1                  \* the object the caller passes to analyze_trend

Min(a, b) == IF a < b THEN a ELSE b

RECURSIVE SumSeq(_)
SumSeq(s) == IF s = <<>> THEN 0 ELSE Head(s) + SumSeq(Tail(s))

RECURSIVE SumFn(_, _)
SumFn(f, S) ==
    IF S = {} THEN 0
    ELSE LET c == CHOOSE x \in S : TRUE IN f[c] + SumFn(f, S \ {c})

RECURSIVE Gcd(_, _)
Gcd(a, b) == IF b = 0 THEN a ELSE Gcd(b, a % b)

Remove(s, i) == SubSeq(s, 1, i - 1) \o SubSeq(s, i + 1, Len(s))

Cell(r, c) == IF c = "Score" THEN r.Score ELSE r.g[c]

(***************************************************************************)
(* analyze_trend, lines 29-32: the null-score drop and the Categorical.    *)
(***************************************************************************)
dropnaNone(t) == t
dropna(t) == SelectSeq(t, LAMBDA r : r.Score # NaN)

\* pd.DataFrame(df.dropna(...)) is a new object, never the one passed in
DataFrameSame(ref) == ref
DataFrame(ref) == ref + 1

Categorical(s) == CHOOSE i \in 1..Len(Categories) : Categories[i] = s

SetSeasonNone(t) == t
SetSeason(t) == [i \in 1..Len(t) |-> [t[i] EXCEPT !.code = Categorical(t[i].Season)]]

(***************************************************************************)
(* groupby(["Year", "Season"]): the group keys and their sort order.  A    *)
(* Categorical sorts by its code, a column of strings alphabetically.      *)
(***************************************************************************)
AlphaRank(s) ==
    CASE s = "fall" -> 1 [] s = "spring" -> 2 [] s = "summer" -> 3 [] s = "winter" -> 4

KeyOf(r) ==
    [Year |-> r.Year, Season |-> r.Season,
     ord |-> IF r.code = 0 THEN AlphaRank(r.Season) ELSE r.code]

KeyLess(a, b) == a.Year < b.Year \/ (a.Year = b.Year /\ a.ord < b.ord)

RECURSIVE SortKeys(_)
SortKeys(S) ==
    IF S = {} THEN <<>>
    ELSE LET m == CHOOSE x \in S : \A y \in S : ~KeyLess(y, x)
         IN <<m>> \o SortKeys(S \ {m})

GroupKeys(t) == {KeyOf(t[i]) : i \in 1..Len(t)}
Group(t, k) == SelectSeq(t, LAMBDA r : KeyOf(r) = k)

(***************************************************************************)
(* season.nlargest(n, "Score", keep="all"), line 17.                       *)
(***************************************************************************)
RECURSIVE SortDesc(_)
SortDesc(s) ==
    IF s = <<>> THEN <<>>
    ELSE LET i == CHOOSE i \in 1..Len(s) :
                    /\ \A j \in 1..Len(s) : s[j].Score <= s[i].Score
                    /\ \A j \in 1..(i - 1) : s[j].Score < s[i].Score
         IN <<s[i]>> \o SortDesc(Remove(s, i))

nlargestFirst(s, n) ==
    IF n <= 0 THEN <<>> ELSE SubSeq(SortDesc(dropna(s)), 1, Min(n, Len(dropna(s))))

nlargest(s, n) ==
    IF n <= 0 THEN <<>>
    ELSE IF n >= Len(s) THEN SortDesc(s)
    ELSE LET dropped == dropna(s)
             nans == SelectSeq(s, LAMBDA r : r.Score = NaN)
             k == Min(n, Len(dropped))
             inds == IF k = 0 THEN <<>>
                     ELSE LET kth == SortDesc(dropped)[k].Score
                          IN SortDesc(SelectSeq(dropped, LAMBDA r : r.Score >= kth))
             findex == IF Len(inds) < n /\ n <= Len(nans) + Len(inds)
                       THEN Len(nans) + Len(inds) ELSE Len(inds)
         IN SubSeq(inds \o nans, 1, findex)

RECURSIVE Concat(_, _, _)
Concat(t, ks, n) ==
    IF ks = <<>> THEN <<>>
    ELSE nlargest(Group(t, Head(ks)), n) \o Concat(t, Tail(ks), n)

\* lines 16-18: the top-n rows of every season, one season after the other
Selected(t, n) == Concat(t, SortKeys(GroupKeys(t)), n)

(***************************************************************************)
(* .groupby(["Year", "Season"]).sum().dropna(), line 19, and line 21.      *)
(***************************************************************************)
ColumnSum(t, c) ==
    SumSeq([i \in 1..Len(t) |-> IF Cell(t[i], c) = NaN THEN 0 ELSE Cell(t[i], c)])

\* A Categorical key makes the result span every Year x category pair; the
\* pairs with no row hold NaN.
ResultIndex(t) ==
    IF t # <<>> /\ \A i \in 1..Len(t) : t[i].code # 0
    THEN {[Year |-> t[i].Year, Season |-> Categories[c], ord |-> c] :
             i \in 1..Len(t), c \in 1..Len(Categories)}
    ELSE GroupKeys(t)

GroupbySum(t) ==
    LET ks == SortKeys(ResultIndex(t))
    IN [i \in 1..Len(ks) |->
         LET season == Group(t, ks[i])
         IN [key |-> ks[i],
             val |-> [c \in Columns |->
                        IF season = <<>> THEN NaN ELSE ColumnSum(season, c)]]]

dropnaRowsNone(cols, rows) == rows
dropnaRows(cols, rows) == SelectSeq(rows, LAMBDA r : \A c \in cols : r.val[c] # NaN)

Difference(cols, rows) ==
    [cols |-> cols \ basic_headers,
     rows |-> [i \in 1..Len(rows) |->
                 [key |-> rows[i].key,
                  val |-> [c \in cols \ basic_headers |-> rows[i].val[c]]]]]

only_genres_for_top_n(t, n) ==
    Difference(Columns, dropnaRows(Columns, GroupbySum(Selected(t, n))))

(***************************************************************************)
(* normalize, line 46: a proportion is <<numerator, denominator>> in       *)
(* lowest terms; 0/0 is NaN and x/0 is infinite.                           *)
(***************************************************************************)
NaNFrac == <<0, 0>>
InfFrac == <<1, 0>>

DivZero(n, d) ==
    IF d = 0 THEN <<0, 1>> ELSE <<n \div Gcd(n, d), d \div Gcd(n, d)>>

Div(n, d) ==
    IF d = 0 THEN (IF n = 0 THEN NaNFrac ELSE InfFrac)
    ELSE <<n \div Gcd(n, d), d \div Gcd(n, d)>>

normalize(tbl) ==
    [cols |-> tbl.cols,
     rows |-> [i \in 1..Len(tbl.rows) |->
                 [key |-> tbl.rows[i].key,
                  val |-> [c \in tbl.cols |->
                             Div(tbl.rows[i].val[c],
                                 SumFn(tbl.rows[i].val, tbl.cols))]]]]

(***************************************************************************)
(* drop_if, lines 49-54, and plot_trend, lines 57-73.                      *)
(***************************************************************************)
drop_if(mask, tbl) ==
    [cols |-> tbl.cols \ mask,
     rows |-> [i \in 1..Len(tbl.rows) |->
                 [key |-> tbl.rows[i].key,
                  val |-> [c \in tbl.cols \ mask |-> tbl.rows[i].val[c]]]]]

tail(tbl, count) ==
    [cols |-> tbl.cols,
     rows |-> SubSeq(tbl.rows, Len(tbl.rows) - count + 1, Len(tbl.rows))]

\* (df >= 1).sum() for column c
Present(tbl, c) == Cardinality({i \in 1..Len(tbl.rows) : tbl.rows[i].val[c] >= 1})

\* (df >= 1).sum() < count * 0.4; for count in 0..20 the double product and
\* the exact one order every integer the same way
not_minimum_requirementWindow(tbl, count) ==
    {c \in tbl.cols : FractionDen * Present(tbl, c) < Window * FractionNum}

not_minimum_requirement(tbl, count) ==
    {c \in tbl.cols : FractionDen * Present(tbl, c) < count * FractionNum}

Count(tbl) == Min(Window, Len(tbl.rows))

Filtered(tbl) ==
    LET recent == tail(tbl, Count(tbl))
    IN drop_if(not_minimum_requirement(recent, Count(tbl)), recent)

\* the table plot_trend hands to plot_stacked_area
plot_trend(tbl, n) ==
    [kind |-> "trend", top_n |-> n, table |-> normalize(Filtered(tbl))]

\* the table plot_heatmap hands to sns.heatmap (transposed: genres as rows)
plot_heatmap(tbl) ==
    [kind |-> "heatmap", top_n |-> Top10, table |-> normalize(tbl)]

(***************************************************************************)
(* Inputs.                                                                 *)
(***************************************************************************)
Row(i, score, year, season, a, b) ==
    [id |-> i, Score |-> score, Year |-> year, Season |-> season, code |-> 0,
     g |-> [c \in Genres |-> IF c = "A" THEN a ELSE b]]

\* rows in any order over three seasons
SmallParts == {<<2020, "winter">>, <<2020, "fall">>, <<2021, "winter">>}

TwoParts == {<<2020, "winter">>, <<2020, "fall">>}

SmallRows(parts, scores) ==
    {[p |-> p, s |-> s, a |-> a] : p \in parts, s \in scores, a \in 0..1}

SmallTables(parts, scores) ==
    UNION {{[i \in 1..k |-> Row(i, f[i].s, f[i].p[1], f[i].p[2], f[i].a, 1 - f[i].a)] :
              f \in [1..k -> SmallRows(parts, scores)]} : k \in 0..MaxRows}

\* k rows of one season; scores rise with the row in runs of t equal scores;
\* with z = 1 every fourth row has no score
DenseTable(k, t, z) ==
    [i \in 1..k |->
       Row(i, IF z = 1 /\ i % 4 = 0 THEN NaN ELSE ((i - 1) \div t) + 1,
           2020, "spring", i % 2, 1)]

DenseTables == {DenseTable(k, t, z) : k \in 0..MaxDense, t \in 1..3, z \in 0..1}

\* one row for each of k consecutive seasons, oldest first or newest first;
\* genre A only in the a oldest seasons
HistTable(k, a, desc) ==
    [i \in 1..k |->
       LET j == IF desc THEN k - i ELSE i - 1
       IN Row(i, 1, 2015 + (j \div 4), Categories[(j % 4) + 1],
              IF j < a THEN 1 ELSE 0, 1)]

HistTables ==
    UNION {{HistTable(k, a, d) : a \in 0..k, d \in BOOLEAN} : k \in 0..MaxHist}

\* the heap when analyze_trend is entered with table t
Entered(t) == [o \in 1..2 |-> IF o = CallerDf THEN t ELSE <<>>]

NoTable == [cols |-> {}, rows |-> <<>>]

(***************************************************************************)
(* analyze_trend, one action for each statement.                           *)
(***************************************************************************)
Init ==
    /\ \/ \E t \in SmallTables(SmallParts, {NaN, 1}) : heap = Entered(t)
       \/ \E t \in DenseTables : heap = Entered(t)
       \/ \E t \in HistTables : heap = Entered(t)
    /\ df = CallerDf
    /\ top_n = 0
    /\ only_genres = NoTable
    /\ rendered = <<>>
    /\ raised = "none"
    /\ pc = "dropna"

\* line 29
analyze_trend_dropna ==
    /\ pc = "dropna"
    /\ heap' = [heap EXCEPT ![DataFrame(df)] = dropna(heap[df])]
    /\ df' = DataFrame(df)
    /\ pc' = "categorical"
    /\ UNCHANGED <<top_n, only_genres, rendered, raised>>

\* lines 31-32
analyze_trend_categorical ==
    /\ pc = "categorical"
    /\ heap' = [heap EXCEPT ![df] = SetSeason(heap[df])]
    /\ pc' = "top5"
    /\ UNCHANGED <<df, top_n, only_genres, rendered, raised>>

\* line 34
analyze_trend_top5 ==
    /\ pc = "top5"
    /\ top_n' = Top5
    /\ only_genres' = only_genres_for_top_n(heap[df], Top5)
    /\ pc' = "plot5"
    /\ UNCHANGED <<heap, df, rendered, raised>>

\* line 35
analyze_trend_plot5 ==
    /\ pc = "plot5"
    /\ rendered' = Append(rendered, plot_trend(only_genres, Top5))
    /\ pc' = "top10"
    /\ UNCHANGED <<heap, df, top_n, only_genres, raised>>

\* line 37
analyze_trend_top10 ==
    /\ pc = "top10"
    /\ top_n' = Top10
    /\ only_genres' = only_genres_for_top_n(heap[df], Top10)
    /\ pc' = "plot10"
    /\ UNCHANGED <<heap, df, rendered, raised>>

\* line 38
analyze_trend_plot10 ==
    /\ pc = "plot10"
    /\ rendered' = Append(rendered, plot_trend(only_genres, Top10))
    /\ pc' = "heatmap"
    /\ UNCHANGED <<heap, df, top_n, only_genres, raised>>

\* line 39
analyze_trend_heatmap ==
    /\ pc = "heatmap"
    /\ rendered' = Append(rendered, plot_heatmap(only_genres))
    /\ pc' = "done"
    /\ UNCHANGED <<heap, df, top_n, only_genres, raised>>

Next ==
    \/ analyze_trend_dropna
    \/ analyze_trend_categorical
    \/ analyze_trend_top5
    \/ analyze_trend_plot5
    \/ analyze_trend_top10
    \/ analyze_trend_plot10
    \/ analyze_trend_heatmap

Spec == Init /\ [][Next]_vars

(***************************************************************************)
(* only_genres_for_top_n called on a prepared table with any n.            *)
(***************************************************************************)
InitTopN ==
    /\ \E t \in SmallTables(TwoParts, 1..MaxScore) :
         heap = [o \in 1..2 |-> IF o = CallerDf THEN t ELSE SetSeason(dropna(t))]
    /\ df = DataFrame(CallerDf)
    /\ top_n = 0
    /\ only_genres = NoTable
    /\ rendered = <<>>
    /\ raised = "none"
    /\ pc = "call"

\* lines 9-21: no statement of the function raises
call_only_genres_for_top_n ==
    /\ pc = "call"
    /\ \E n \in -1..MaxN :
         /\ top_n' = n
         /\ only_genres' = only_genres_for_top_n(heap[df], n)
    /\ pc' = "returned"
    /\ UNCHANGED <<heap, df, rendered, raised>>

NextTopN == call_only_genres_for_top_n

SpecTopN == InitTopN /\ [][NextTopN]_vars

(***************************************************************************)
(* plot_trend and plot_heatmap called on an aggregated table.              *)
(***************************************************************************)
SeasonKey(j) ==
    [Year |-> 2015 + (j \div 4), Season |-> Categories[(j % 4) + 1], ord |-> (j % 4) + 1]

AggRow(j, a, b) ==
    [key |-> SeasonKey(j), val |-> [c \in Genres |-> IF c = "A" THEN a ELSE b]]

Kinds == {<<0, 0>>, <<1, 0>>, <<0, 1>>, <<2, 1>>}

\* any counts, a few seasons
ArbTables ==
    UNION {{[cols |-> Genres, rows |-> [i \in 1..k |-> AggRow(i - 1, f[i][1], f[i][2])]] :
              f \in [1..k -> Kinds]} : k \in 0..MaxSmall}

\* a seasons with A alone, then b seasons with both genres, then c with none
BlockTable(a, b, c) ==
    [cols |-> Genres,
     rows |-> [i \in 1..(a + b + c) |->
                 IF i <= a THEN AggRow(i - 1, 1, 0)
                 ELSE IF i <= a + b THEN AggRow(i - 1, 2, 1)
                 ELSE AggRow(i - 1, 0, 0)]]

BlockTables ==
    UNION {UNION {{BlockTable(a, b, c) : c \in 0..(MaxParts - a - b)} :
                    b \in 0..(MaxParts - a)} : a \in 0..MaxParts}


InitPlot ==
    /\ heap = [o \in 1..2 |-> <<>>]
    /\ df = DataFrame(CallerDf)
    /\ top_n = Top10
    /\ (only_genres \in ArbTables \/ only_genres \in BlockTables)
    /\ rendered = <<>>
    /\ raised = "none"
    /\ pc = "call"

call_plot_trend ==
    /\ pc = "call"
    /\ rendered' = <<plot_trend(only_genres, top_n)>>
    /\ pc' = "returned"
    /\ UNCHANGED <<heap, df, top_n, only_genres, raised>>

call_plot_heatmap ==
    /\ pc = "call"
    /\ rendered' = <<plot_heatmap(only_genres)>>
    /\ pc' = "returned"
    /\ UNCHANGED <<heap, df, top_n, only_genres, raised>>

NextPlot == call_plot_trend \/ call_plot_heatmap

SpecPlot == InitPlot /\ [][NextPlot]_vars

(***************************************************************************)
(* Claims.                                                                 *)
(***************************************************************************)
Ids(t) == {t[i].id : i \in 1..Len(t)}
InPart(t, k) == {i \in 1..Len(t) : KeyOf(t[i]) = k}
Above(t, i) == {j \in InPart(t, KeyOf(t[i])) : t[j].Score > t[i].Score}
AtLeast(t, k, v) == {j \in InPart(t, k) : t[j].Score >= v}

\* the N-th largest score of a season that has at least N rows
NthLargest(t, k, n) ==
    CHOOSE v \in {t[i].Score : i \in InPart(t, k)} :
        /\ Cardinality(AtLeast(t, k, v)) >= n
        /\ Cardinality({j \in InPart(t, k) : t[j].Score > v}) < n

\* C1: for every season of the table and every N >= 1 the rows the top-N step
\* selects are exactly the rows of the season whose Score is at least the
\* season's N-th largest Score, and the whole season when it has fewer than N
\* rows; rows tied with the N-th score are all selected.
TopNSelectsTies ==
    (pc = "returned" /\ top_n >= 1) =>
        LET t == heap[df]
            sel == Selected(t, top_n)
        IN /\ Len(sel) = Cardinality(Ids(sel))
           /\ \A k \in GroupKeys(t) :
                Ids(Group(sel, k)) =
                    IF Cardinality(InPart(t, k)) < top_n
                    THEN {t[i].id : i \in InPart(t, k)}
                    ELSE {t[i].id : i \in AtLeast(t, k, NthLargest(t, k, top_n))}

TopNSelectsTiesWitness ==
    /\ pc = "returned"
    /\ top_n = 1
    /\ \E k \in GroupKeys(heap[df]) :
         /\ Len(Group(Selected(heap[df], top_n), k)) > top_n
         /\ Len(Group(Selected(heap[df], top_n), k)) < Len(Group(heap[df], k))

\* C2: no row without a Score reaches the top-N step: the table handed to
\* only_genres_for_top_n holds none, neither selection (top 5, top 10) holds
\* one, and every aggregated genre count is at most the genre's total over the
\* caller's scored rows of that season.
NullScoresDropped ==
    pc \notin {"dropna"} =>
        /\ \A i \in 1..Len(heap[df]) : heap[df][i].Score # NaN
        /\ Ids(heap[df]) = {heap[CallerDf][i].id : i \in
                               {j \in 1..Len(heap[CallerDf]) : heap[CallerDf][j].Score # NaN}}
        /\ \A n \in {Top5, Top10} :
             LET sel == Selected(heap[df], n)
             IN \A i \in 1..Len(sel) : sel[i].Score # NaN
        /\ \A i \in 1..Len(only_genres.rows) : \A c \in only_genres.cols :
             only_genres.rows[i].val[c] <=
               SumFn([j \in 1..Len(heap[CallerDf]) |-> heap[CallerDf][j].g[c]],
                     {j \in 1..Len(heap[CallerDf]) :
                        /\ heap[CallerDf][j].Score # NaN
                        /\ heap[CallerDf][j].Year = only_genres.rows[i].key.Year
                        /\ heap[CallerDf][j].Season = only_genres.rows[i].key.Season})

NullScoresDroppedWitness ==
    /\ pc = "done"
    /\ \E i, j \in 1..Len(heap[CallerDf]) :
         /\ heap[CallerDf][i].Score = NaN
         /\ heap[CallerDf][j].Score # NaN
         /\ heap[CallerDf][i].Year = heap[CallerDf][j].Year
         /\ heap[CallerDf][i].Season = heap[CallerDf][j].Season
         /\ heap[CallerDf][i].g["A"] = 1
         /\ heap[CallerDf][j].g["A"] = 0
    /\ \E i \in 1..Len(heap[CallerDf]) :
         /\ heap[CallerDf][i].Score = NaN
         /\ \A j \in 1..Len(heap[CallerDf]) :
              heap[CallerDf][j].Score # NaN => heap[CallerDf][j].Season # heap[CallerDf][i].Season
    /\ only_genres.rows # <<>>

\* the rows of t the top-n step is to select, stated by rank
Chosen(t, n) == {i \in 1..Len(t) : Cardinality(Above(t, i)) < n}

\* C3: the table only_genres_for_top_n returns has exactly one row for each
\* (Year, Season) pair of its input and none for any other pair; a row's value
\* for a genre is the sum of the genre over the selected rows of the pair; no
\* column other than the genres remains.
OneRowPerSeason ==
    (pc = "returned" /\ top_n >= 1) =>
        LET t == heap[df]
            rows == only_genres.rows
        IN /\ only_genres.cols = Genres
           /\ {<<rows[i].key.Year, rows[i].key.Season>> : i \in 1..Len(rows)}
                = {<<t[i].Year, t[i].Season>> : i \in 1..Len(t)}
           /\ \A i, j \in 1..Len(rows) : rows[i].key = rows[j].key => i = j
           /\ \A i \in 1..Len(rows) : \A c \in Genres :
                rows[i].val[c] =
                    SumFn([j \in 1..Len(t) |-> t[j].g[c]],
                          {j \in Chosen(t, top_n) :
                             /\ t[j].Year = rows[i].key.Year
                             /\ t[j].Season = rows[i].key.Season})

OneRowPerSeasonWitness ==
    /\ pc = "returned"
    /\ top_n = 1
    /\ Len(only_genres.rows) = 2
    /\ Len(heap[df]) = 3
    /\ \E j \in 1..3 : \E i \in 1..2 :
         /\ j \notin Chosen(heap[df], top_n)
         /\ heap[df][j].g["A"] = 1
         /\ only_genres.rows[i].key = KeyOf(heap[df][j])
         /\ only_genres.rows[i].val["A"] = 0

\* C10: the rows selected with N = 5 are among the rows selected with N = 10,
\* the top-5 table has the seasons of the top-10 table, and each of its genre
\* counts is at most the top-10 count.
Top5WithinTop10 ==
    pc \in {"plot10", "heatmap", "done"} =>
        LET t == heap[df]
            five == only_genres_for_top_n(t, Top5)
        IN /\ Ids(Selected(t, Top5)) \subseteq Ids(Selected(t, top_n))
           /\ Len(five.rows) = Len(only_genres.rows)
           /\ \A i \in 1..Len(five.rows) :
                /\ five.rows[i].key = only_genres.rows[i].key
                /\ \A c \in Genres : five.rows[i].val[c] <= only_genres.rows[i].val[c]

Top5WithinTop10Witness ==
    /\ pc = "done"
    /\ Len(Selected(heap[df], Top5)) > Top5
    /\ Len(Selected(heap[df], Top5)) < Len(Selected(heap[df], Top10))
    /\ Len(Selected(heap[df], Top10)) < Len(heap[df])
    /\ only_genres_for_top_n(heap[df], Top5).rows[1].val["A"] < only_genres.rows[1].val["A"]

\* the seasons of the caller's scored rows, and the calendar order of seasons
Seasons(t) == {<<t[i].Year, t[i].Season>> : i \in {j \in 1..Len(t) : t[j].Score # NaN}}
SeasonOrder ==
    {<<"winter", "spring">>, <<"winter", "summer">>, <<"winter", "fall">>,
     <<"spring", "summer">>, <<"spring", "fall">>, <<"summer", "fall">>}
Before(p, q) == p[1] < q[1] \/ (p[1] = q[1] /\ <<p[2], q[2]>> \in SeasonOrder)
ChartKeys(r) == [i \in 1..Len(r.table.rows) |->
                   <<r.table.rows[i].key.Year, r.table.rows[i].key.Season>>]

\* C5: the rows of a trend chart are the min(20, total) latest seasons of the
\* input in calendar order (by Year, then winter, spring, summer, fall),
\* whatever the order of the input's rows.
RecentInCalendarOrder ==
    \A r \in 1..Len(rendered) :
        rendered[r].kind = "trend" =>
            LET K == ChartKeys(rendered[r])
                P == Seasons(heap[CallerDf])
            IN /\ Len(K) = (IF Cardinality(P) < 20 THEN Cardinality(P) ELSE 20)
               /\ \A i \in 1..Len(K) : K[i] \in P
               /\ \A i, j \in 1..Len(K) : i < j => Before(K[i], K[j])
               /\ \A p \in P : (\A i \in 1..Len(K) : K[i] # p) =>
                                 \A i \in 1..Len(K) : Before(p, K[i])

RecentInCalendarOrderWitness ==
    /\ pc = "done"
    /\ Len(heap[CallerDf]) = 3
    /\ <<heap[CallerDf][1].Year, heap[CallerDf][1].Season>> = <<2020, "fall">>
    /\ <<heap[CallerDf][2].Year, heap[CallerDf][2].Season>> = <<2021, "winter">>
    /\ <<heap[CallerDf][3].Year, heap[CallerDf][3].Season>> = <<2020, "winter">>
    /\ ChartKeys(rendered[2]) = <<<<2020, "winter">>, <<2020, "fall">>, <<2021, "winter">>>>

\* more seasons than the window, newest row first: the chart keeps the latest 20
RecentWindowReached ==
    /\ pc = "done"
    /\ Cardinality(Seasons(heap[CallerDf])) > 20
    /\ Before(<<heap[CallerDf][2].Year, heap[CallerDf][2].Season>>,
              <<heap[CallerDf][1].Year, heap[CallerDf][1].Season>>)
    /\ Len(rendered[1].table.rows) = 20

\* the genres that pass the consistency requirement of the table a rendered
\* table was computed from
Source(r) == IF r = 1 THEN only_genres_for_top_n(heap[df], Top5)
             ELSE only_genres_for_top_n(heap[df], Top10)

\* C7: every normalized table handed to a rendering collaborator, trend chart
\* or heatmap, has as columns only genres that passed the Consistency Filter.
NormalizedOnlyFiltered ==
    \A r \in 1..Len(rendered) :
        rendered[r].table.cols \subseteq Filtered(Source(r)).cols

\* the trend charts alone do hold only genres that passed
TrendOnlyFiltered ==
    \A r \in 1..Len(rendered) :
        rendered[r].kind = "trend" =>
            rendered[r].table.cols \subseteq Filtered(Source(r)).cols

\* C8: a non-positive top_n fails with InvalidArgument at entry and produces
\* no output table.
InvalidArgumentAtEntry ==
    (pc = "returned" /\ top_n <= 0) =>
        (raised = "InvalidArgument" /\ only_genres = NoTable)

\* C9: every stage leaves the table it received unchanged: the caller's table
\* keeps its rows and its Season column of strings through analyze_trend, the
\* name df is rebound to a new object before anything is assigned to it, and
\* the aggregated table is the same after plot_trend as before.
InputsUnchanged ==
    [][/\ heap'[CallerDf] = heap[CallerDf]
       /\ df' # CallerDf
       /\ pc \in {"top5", "top10"} => heap' = heap
       /\ pc \in {"plot5", "plot10", "heatmap"} =>
            (heap' = heap /\ only_genres' = only_genres)]_vars

InputsUnchangedWitness ==
    /\ pc = "done"
    /\ df # CallerDf
    /\ Len(heap[df]) < Len(heap[CallerDf])
    /\ Len(heap[df]) > 0
    /\ \A i \in 1..Len(heap[CallerDf]) : heap[CallerDf][i].code = 0
    /\ \A i \in 1..Len(heap[df]) : heap[df][i].code # 0
    /\ Len(rendered) = 3

\* the number of the Count(tbl) latest rows in which genre c counts >= 1
PresentRecent(tbl, c) ==
    Cardinality({i \in 1..Len(tbl.rows) :
                   /\ i > Len(tbl.rows) - Count(tbl)
                   /\ tbl.rows[i].val[c] >= 1})

\* C4: plot_trend keeps a genre if and only if the number of the latest
\* count = min(20, seasons) seasons in which its count is >= 1 is at least
\* 0.4 * count; with 10 seasons a genre present in exactly 4 stays and one
\* present in exactly 3 goes.
ConsistencyThreshold ==
    (pc = "returned" /\ rendered[1].kind = "trend") =>
        LET count == IF Len(only_genres.rows) < 20 THEN Len(only_genres.rows) ELSE 20
        IN /\ rendered[1].table.cols =
                {c \in only_genres.cols : 5 * PresentRecent(only_genres, c) >= 2 * count}
           /\ Len(rendered[1].table.rows) = count
           /\ count = 10 =>
                \A c \in only_genres.cols :
                    /\ PresentRecent(only_genres, c) = 4 => c \in rendered[1].table.cols
                    /\ PresentRecent(only_genres, c) = 3 => c \notin rendered[1].table.cols

ConsistencyThresholdWitness ==
    /\ pc = "returned"
    /\ rendered[1].kind = "trend"
    /\ Len(only_genres.rows) = 10
    /\ PresentRecent(only_genres, "A") = 4
    /\ PresentRecent(only_genres, "B") = 3
    /\ rendered[1].table.cols = {"A"}

\* the counts a rendered table was normalized from
Counts(r) == IF r.kind = "trend" THEN Filtered(only_genres) ELSE only_genres

\* C6: normalize gives every row with a non-zero sum the values count / sum,
\* each in [0, 1] and summing to 1, and every row with sum zero NaN in every
\* column.
Proportions ==
    (pc = "returned") =>
        LET out == rendered[1].table
            in == Counts(rendered[1])
        IN /\ Len(out.rows) = Len(in.rows)
           /\ \A i \in 1..Len(out.rows) :
                LET sum == SumFn(in.rows[i].val, in.cols)
                    v == out.rows[i].val
                IN IF sum = 0
                   THEN \A c \in out.cols : v[c] = NaNFrac
                   ELSE /\ \A c \in out.cols :
                             /\ v[c][2] > 0
                             /\ v[c][1] * sum = in.rows[i].val[c] * v[c][2]
                             /\ 0 <= v[c][1] /\ v[c][1] <= v[c][2]
                             /\ sum % v[c][2] = 0
                        /\ SumFn([c \in out.cols |-> v[c][1] * (sum \div v[c][2])],
                                 out.cols) = sum

ProportionsWitness ==
    /\ pc = "returned"
    /\ rendered[1].kind = "heatmap"
    /\ \E i \in 1..Len(rendered[1].table.rows) :
         \A c \in Genres : rendered[1].table.rows[i].val[c] = NaNFrac
    /\ \E i \in 1..Len(rendered[1].table.rows) :
         /\ rendered[1].table.rows[i].val["A"] = <<2, 3>>
         /\ rendered[1].table.rows[i].val["B"] = <<1, 3>>

====
